---- MODULE Spec2Model ----
(***************************************************************************)
(* Model of rust_signals (src/src/lib.rs): a generation-tracked cell       *)
(* (Signal) and a memoized view over it (Derived).                         *)
(*                                                                         *)
(* Objects.  Root signals "S" and "B" are owned by the caller.  Views are  *)
(*   "D1" = S.derive(F), "D2" = D1.derive(G), "DP" = (&S, &B).derive(H),   *)
(*   "D3" = S.derive(K), a sibling of D1.                                  *)
(* A raw pointer (SignalRef / DerivedSignalRef) is the name of the object  *)
(* it points into; the caller keeps every source alive and in place while  *)
(* a view over it exists, so no pointer dangles in the modelled runs.      *)
(*                                                                         *)
(* The generation counter is a u32 in the source.  The model keeps the     *)
(* wrapping arithmetic but scales the width down to GenBits bits so that a *)
(* full cycle of the counter takes only a few mutating calls.              *)
(***************************************************************************)
EXTENDS Integers, Sequences, FiniteSets, TLC

(* ------------------------------ bounds --------------------------------- *)
\* width of the generation counter in the model (32 in the source)
GenBits == 2
\* signal values range over 0 .. MaxVal
MaxVal == 2
\* mutating calls made on the root signals in one run: a full cycle of the counter and one more
MaxMut == 5
\* invocations of one view's function in one run
MaxCalls == 3

GenModulus == 2 ^ GenBits
Values == 0 .. MaxVal

Roots == {"S", "B"}
Views == {"D1", "D2", "DP", "D3"}

VARIABLES
    root,      \* root[r]    : the Signal<T> the caller owns under the name r
    derived,   \* derived[v] : the Derived struct named v, or NoDerived before derive
    nmut,      \* history: nmut[r] = number of flag_updated calls made on root r
    hist,      \* history: per view, function invocations and source call counts
    last       \* history: the last call made, its receiver and what it returned

vars == <<root, derived, nmut, hist, last>>

(* ------------------------------ Signal --------------------------------- *)
Signal_new(value) == [inner |-> value, generation |-> 1]

\* variant: the counter is incremented without wrapping
Signal_flag_updated_NoWrap(s) == [s EXCEPT !.generation = s.generation + 1]

\* variant: the counter saturates at its maximum
Signal_flag_updated_Saturating(s) ==
    [s EXCEPT !.generation = IF s.generation = GenModulus - 1 THEN s.generation
                             ELSE s.generation + 1]

\* self.generation.wrapping_add(1)
Signal_flag_updated(s) == [s EXCEPT !.generation = (s.generation + 1) % GenModulus]

Signal_set(s, value) == [Signal_flag_updated(s) EXCEPT !.inner = value]

Signal_get(s) == s.inner

\* the state of the signal when get_mut hands out the borrow
Signal_get_mut(s) == Signal_flag_updated(s)

Signal_generation(s) == s.generation

\* Deref::deref is self.get()
Signal_deref(s) == Signal_get(s)

\* DerefMut::deref_mut is self.get_mut()
Signal_deref_mut(s) == Signal_get_mut(s)

(* --------------------------- derivable sources ------------------------- *)
NoDerived == [live |-> FALSE]

Live(v) == derived[v].live

\* &*self.inner for the two pointer kinds
SignalRef_target(b) == root[b.inner]
DerivedSignalRef_target(b) == derived[b.inner].output

SignalRef_current_generation(b) == Signal_generation(SignalRef_target(b))
SignalRef_compare_generation(b, other) == SignalRef_current_generation(b) = other
SignalRef_get(b) == Signal_get(SignalRef_target(b))

DerivedSignalRef_current_generation(b) == Signal_generation(DerivedSignalRef_target(b))
DerivedSignalRef_compare_generation(b, other) == DerivedSignalRef_current_generation(b) = other
\* Signal::get gives the Cell, Cell::get copies the value out
DerivedSignalRef_get(b) == Signal_get(DerivedSignalRef_target(b))

\* trait dispatch for the members of a pair
Member_current_generation(b) ==
    IF b.kind = "SignalRef" THEN SignalRef_current_generation(b)
    ELSE DerivedSignalRef_current_generation(b)
Member_compare_generation(b, other) ==
    IF b.kind = "SignalRef" THEN SignalRef_compare_generation(b, other)
    ELSE DerivedSignalRef_compare_generation(b, other)
Member_get(b) ==
    IF b.kind = "SignalRef" THEN SignalRef_get(b)
    ELSE DerivedSignalRef_get(b)

\* variant: the members' comparisons are joined with "or"
Pair_compare_generation_Or(b, other) ==
    Member_compare_generation(b.a, other[1]) \/ Member_compare_generation(b.b, other[2])

\* variant: only the first member is compared
Pair_compare_generation_FirstOnly(b, other) == Member_compare_generation(b.a, other[1])

Pair_compare_generation(b, other) ==
    Member_compare_generation(b.a, other[1]) /\ Member_compare_generation(b.b, other[2])
Pair_current_generation(b) ==
    <<Member_current_generation(b.a), Member_current_generation(b.b)>>
Pair_get(b) == <<Member_get(b.a), Member_get(b.b)>>

\* SignalDeriveBase, dispatched on the implementing type
compare_generation(b, other) ==
    IF b.kind = "Pair" THEN Pair_compare_generation(b, other)
    ELSE Member_compare_generation(b, other)
current_generation(b) ==
    IF b.kind = "Pair" THEN Pair_current_generation(b)
    ELSE Member_current_generation(b)
get(b) ==
    IF b.kind = "Pair" THEN Pair_get(b)
    ELSE Member_get(b)

\* AsSignalDeriveBase::as_derive_base for Signal, Derived and (&A, &B)
Signal_as_derive_base(r) == [kind |-> "SignalRef", inner |-> r]
Derived_as_derive_base(v) == [kind |-> "DerivedSignalRef", inner |-> v]
Pair_as_derive_base(a, b) == [kind |-> "Pair", a |-> a, b |-> b]

\* the receiver each view is derived from
as_derive_base(v) ==
    CASE v = "D1" -> Signal_as_derive_base("S")
      [] v = "D2" -> Derived_as_derive_base("D1")
      [] v = "DP" -> Pair_as_derive_base(Signal_as_derive_base("S"), Signal_as_derive_base("B"))
      [] v = "D3" -> Signal_as_derive_base("S")

\* the closures handed to derive: F doubles, G adds one, H combines a pair, K adds three
Apply(function, x) ==
    CASE function = "F" -> x * 2
      [] function = "G" -> x + 1
      [] function = "H" -> 3 * x[1] + x[2]
      [] function = "K" -> x + 3

FunctionOf(v) ==
    CASE v = "D1" -> "F"
      [] v = "D2" -> "G"
      [] v = "DP" -> "H"
      [] v = "D3" -> "K"

(* ------------------------------ Derived -------------------------------- *)
\* variant: the baseline is not taken from the source
Derived_new_NoBaseline(base, function) ==
    [live |-> TRUE,
     base |-> base,
     output |-> Signal_new(Apply(function, get(base))),
     output_gen |-> IF base.kind = "Pair" THEN <<0, 0>> ELSE 0,
     function |-> function]

Derived_new(base, function) ==
    [live |-> TRUE,
     base |-> base,
     output |-> Signal_new(Apply(function, get(base))),
     output_gen |-> current_generation(base),
     function |-> function]

\* variant: the negation is missing
Derived_input_changed_NoNot(d) == compare_generation(d.base, d.output_gen)

Derived_input_changed(d) == ~ compare_generation(d.base, d.output_gen)

Derived_output_signal(d) == d.output

\* the struct after get(): self is shared, so *self.output is the Cell and
\* .set is Cell::set; neither output.generation nor output_gen is assigned
Derived_get(d) ==
    IF Derived_input_changed(d)
    THEN [d EXCEPT !.output.inner = Apply(d.function, get(d.base))]
    ELSE d

\* what get() returns: the Cell's content after the conditional store
Derived_get_result(d) == Signal_get(Derived_get(d).output)

(* ----------------------------- history --------------------------------- *)
\* number of mutating calls received so far by what a source handle points at;
\* nothing can call flag_updated on a view's output cell (only &Signal is exposed)
MemberMuts(b) == IF b.kind = "SignalRef" THEN nmut[b.inner] ELSE 0
SourceMuts(b) ==
    IF b.kind = "Pair" THEN <<MemberMuts(b.a), MemberMuts(b.b)>> ELSE <<MemberMuts(b)>>

\* does the source handle b read root signal r
MemberReadsRoot(b, r) == b.kind = "SignalRef" /\ b.inner = r
ReadsRoot(b, r) ==
    IF b.kind = "Pair" THEN MemberReadsRoot(b.a, r) \/ MemberReadsRoot(b.b, r)
    ELSE MemberReadsRoot(b, r)

\* the argument of the last call is recorded as <<value>>, or as <<>> when there is none
NoArg == <<>>

NoHist == [calls |-> 0, derivedAt |-> <<>>, computedAt |-> <<>>, dirty |-> FALSE]

\* a mutating call on root r marks every live view that reads r
Touch(r) ==
    [v \in Views |->
        IF Live(v) /\ ReadsRoot(derived[v].base, r)
        THEN [hist[v] EXCEPT !.dirty = TRUE]
        ELSE hist[v]]

(* ------------------------------- state --------------------------------- *)
Init ==
    /\ root \in [Roots -> {Signal_new(value) : value \in Values}]
    /\ derived = [v \in Views |-> NoDerived]
    /\ nmut = [r \in Roots |-> 0]
    /\ hist = [v \in Views |-> NoHist]
    /\ last = [op |-> "new", target |-> "S", arg |-> NoArg, ret |-> 0, invoked |-> 0]

(* --------------------------- calls on a Signal ------------------------- *)
Mutate(r, s, op, arg) ==
    /\ nmut["S"] + nmut["B"] < MaxMut
    /\ root' = [root EXCEPT ![r] = s]
    /\ nmut' = [nmut EXCEPT ![r] = @ + 1]
    /\ hist' = Touch(r)
    /\ last' = [op |-> op, target |-> r, arg |-> arg, ret |-> 0, invoked |-> 0]
    /\ UNCHANGED derived

CallSignal_flag_updated(r) == Mutate(r, Signal_flag_updated(root[r]), "flag_updated", NoArg)

\* variant: set pushes the new value into the views that read the signal directly
CallSignal_set_Push(r, value) ==
    /\ nmut["S"] + nmut["B"] < MaxMut
    /\ root' = [root EXCEPT ![r] = Signal_set(root[r], value)]
    /\ nmut' = [nmut EXCEPT ![r] = @ + 1]
    /\ hist' = Touch(r)
    /\ derived' = [v \in Views |->
                    IF Live(v) /\ derived[v].base = Signal_as_derive_base(r)
                    THEN [derived[v] EXCEPT !.output.inner = Apply(derived[v].function, value)]
                    ELSE derived[v]]
    /\ last' = [op |-> "set", target |-> r, arg |-> <<value>>, ret |-> 0, invoked |-> 0]

CallSignal_set(r, value) == Mutate(r, Signal_set(root[r], value), "set", <<value>>)

\* get_mut, then the caller either writes value through the borrow or drops it unused
CallSignal_get_mut(r, write, value) ==
    Mutate(r,
           IF write THEN [Signal_get_mut(root[r]) EXCEPT !.inner = value]
           ELSE Signal_get_mut(root[r]),
           "get_mut",
           IF write THEN <<value>> ELSE NoArg)

\* *signal = value, or *signal += k: a write through DerefMut
CallSignal_deref_mut(r, value) ==
    Mutate(r, [Signal_deref_mut(root[r]) EXCEPT !.inner = value], "deref_mut", <<value>>)

Read(r, op, ret) ==
    /\ last' = [op |-> op, target |-> r, arg |-> NoArg, ret |-> ret, invoked |-> 0]
    /\ UNCHANGED <<root, derived, nmut, hist>>

\* variant: the read accessor goes through flag_updated
CallSignal_get_Bumps(r) ==
    /\ root' = [root EXCEPT ![r] = Signal_flag_updated(root[r])]
    /\ last' = [op |-> "get", target |-> r, arg |-> NoArg,
                ret |-> Signal_get(root[r]), invoked |-> 0]
    /\ UNCHANGED <<derived, nmut, hist>>

CallSignal_get(r) == Read(r, "get", Signal_get(root[r]))

CallSignal_deref(r) == Read(r, "deref", Signal_deref(root[r]))

CallSignal_generation(r) == Read(r, "generation", Signal_generation(root[r]))

(* --------------------------- calls on a view --------------------------- *)
\* receiver.derive(function): the receiver must exist
CallDerive(v) ==
    /\ ~ Live(v)
    /\ v = "D2" => Live("D1")
    /\ LET base == as_derive_base(v)
       IN /\ derived' = [derived EXCEPT ![v] = Derived_new(base, FunctionOf(v))]
          /\ hist' = [hist EXCEPT ![v] = [calls |-> 1,
                                          derivedAt |-> SourceMuts(base),
                                          computedAt |-> SourceMuts(base),
                                          dirty |-> FALSE]]
          /\ last' = [op |-> "derive", target |-> v, arg |-> NoArg, ret |-> 0, invoked |-> 1]
    /\ UNCHANGED <<root, nmut>>

\* variant: get() reads its source through the mutable accessor, which bumps
\* the generation of the signal or of the upstream output cell it reads
CallDerived_get_BumpsSource(v) ==
    /\ Live(v)
    /\ hist[v].calls < MaxCalls
    /\ LET d == derived[v]
           n == IF Derived_input_changed(d) THEN 1 ELSE 0
           first == IF d.base.kind = "Pair" THEN d.base.a ELSE d.base
       IN /\ root' = IF first.kind = "SignalRef"
                     THEN [root EXCEPT ![first.inner] = Signal_get_mut(@)]
                     ELSE root
          /\ derived' = IF first.kind = "DerivedSignalRef"
                        THEN [derived EXCEPT ![v] = Derived_get(d),
                                             ![first.inner].output = Signal_get_mut(@)]
                        ELSE [derived EXCEPT ![v] = Derived_get(d)]
          /\ hist' = [hist EXCEPT ![v] =
                        [calls |-> @.calls + n,
                         derivedAt |-> @.derivedAt,
                         computedAt |-> IF n = 1 THEN SourceMuts(d.base) ELSE @.computedAt,
                         dirty |-> FALSE]]
          /\ last' = [op |-> "Derived_get", target |-> v, arg |-> NoArg,
                      ret |-> Derived_get_result(d), invoked |-> n]
    /\ UNCHANGED nmut

\* variant: a recomputing get() acknowledges the change on the signal it reads,
\* setting the signal's generation back to the reader's baseline
CallDerived_get_Consumes(v) ==
    /\ Live(v)
    /\ hist[v].calls < MaxCalls
    /\ LET d == derived[v]
           n == IF Derived_input_changed(d) THEN 1 ELSE 0
       IN /\ derived' = [derived EXCEPT ![v] = Derived_get(d)]
          /\ root' = IF n = 1 /\ d.base.kind = "SignalRef"
                     THEN [root EXCEPT ![d.base.inner].generation = d.output_gen]
                     ELSE root
          /\ hist' = [hist EXCEPT ![v] =
                        [calls |-> @.calls + n,
                         derivedAt |-> @.derivedAt,
                         computedAt |-> IF n = 1 THEN SourceMuts(d.base) ELSE @.computedAt,
                         dirty |-> FALSE]]
          /\ last' = [op |-> "Derived_get", target |-> v, arg |-> NoArg,
                      ret |-> Derived_get_result(d), invoked |-> n]
    /\ UNCHANGED nmut

CallDerived_get(v) ==
    /\ Live(v)
    /\ hist[v].calls < MaxCalls
    /\ LET d == derived[v]
           n == IF Derived_input_changed(d) THEN 1 ELSE 0
       IN /\ derived' = [derived EXCEPT ![v] = Derived_get(d)]
          /\ hist' = [hist EXCEPT ![v] =
                        [calls |-> @.calls + n,
                         derivedAt |-> @.derivedAt,
                         computedAt |-> IF n = 1 THEN SourceMuts(d.base) ELSE @.computedAt,
                         dirty |-> FALSE]]
          /\ last' = [op |-> "Derived_get", target |-> v, arg |-> NoArg,
                      ret |-> Derived_get_result(d), invoked |-> n]
    /\ UNCHANGED <<root, nmut>>

\* variant: the staleness query refreshes the cache when it finds the view stale
CallDerived_input_changed_Refreshes(v) ==
    /\ Live(v)
    /\ derived' = [derived EXCEPT ![v] = Derived_get(derived[v])]
    /\ last' = [op |-> "input_changed", target |-> v, arg |-> NoArg,
                ret |-> Derived_input_changed(derived[v]), invoked |-> 0]
    /\ UNCHANGED <<root, nmut, hist>>

CallDerived_input_changed(v) ==
    /\ Live(v)
    /\ last' = [op |-> "input_changed", target |-> v, arg |-> NoArg,
                ret |-> Derived_input_changed(derived[v]), invoked |-> 0]
    /\ UNCHANGED <<root, derived, nmut, hist>>

(* --------------------------- specifications ---------------------------- *)
SignalCalls(r) ==
    \/ CallSignal_flag_updated(r)
    \/ \E value \in Values : CallSignal_set(r, value)
    \/ \E write \in BOOLEAN, value \in Values : CallSignal_get_mut(r, write, value)
    \/ \E value \in Values : CallSignal_deref_mut(r, value)
    \/ CallSignal_get(r)
    \/ CallSignal_deref(r)
    \/ CallSignal_generation(r)

ViewCalls(v) ==
    \/ CallDerive(v)
    \/ CallDerived_get(v)
    \/ CallDerived_input_changed(v)

\* one signal and one view over it
Next == SignalCalls("S") \/ ViewCalls("D1")
Spec == Init /\ [][Next]_vars

\* a chain: S, D1 over S, D2 over D1
NextChain == SignalCalls("S") \/ ViewCalls("D1") \/ ViewCalls("D2")
SpecChain == Init /\ [][NextChain]_vars

\* a view over the pair (&S, &B)
NextPair == SignalCalls("S") \/ SignalCalls("B") \/ ViewCalls("DP")
SpecPair == Init /\ [][NextPair]_vars

\* two sibling views over the same signal
NextSibling == SignalCalls("S") \/ ViewCalls("D1") \/ ViewCalls("D3")
SpecSibling == Init /\ [][NextSibling]_vars

\* every kind of source: a run builds either the chain over S or the view over (S, B)
NextSources ==
    \/ SignalCalls("S")
    \/ SignalCalls("B")
    \/ (~ Live("DP") /\ ViewCalls("D1"))
    \/ ViewCalls("D2")
    \/ (~ Live("D1") /\ ViewCalls("DP"))
SpecSources == Init /\ [][NextSources]_vars

(* ------------------------------ properties ----------------------------- *)
\* mutating calls each member of v's source has received since v was derived
SinceDerive(v) ==
    [i \in DOMAIN hist[v].derivedAt |-> SourceMuts(derived[v].base)[i] - hist[v].derivedAt[i]]

\* mutating calls each member of v's source has received since v's function last ran
SinceCompute(v) ==
    [i \in DOMAIN hist[v].computedAt |-> SourceMuts(derived[v].base)[i] - hist[v].computedAt[i]]

\* the last call was get() on view v
JustGot(v) == last.op = "Derived_get" /\ last.target = v

\* C1: a get() on D1 = S.derive(F) returns F(current value of S), as long as
\* S has received fewer than 2^GenBits mutating calls since D1 was derived
C1_InvalidationOnMutation ==
    (JustGot("D1") /\ SinceDerive("D1")[1] < GenModulus)
        => last.ret = Apply("F", Signal_get(root["S"]))

\* a recomputing get() after the counter wrapped past zero
C1_Witness ==
    /\ JustGot("D1")
    /\ last.invoked = 1
    /\ SinceDerive("D1")[1] \in 2 .. (GenModulus - 1)
    /\ Signal_generation(root["S"]) < derived["D1"].output_gen
    /\ last.ret = Apply("F", Signal_get(root["S"]))

\* C2: the function of D1 is invoked at most once at derive plus once per
\* mutating call made on S since then
C2_NoSpuriousRecompute ==
    Live("D1") => hist["D1"].calls <= 1 + SinceDerive("D1")[1]

\* C3: right after get() on D1 returns, the stored baseline equals the
\* source's current generation and input_changed() is false
C3_GetLeavesFresh ==
    JustGot("D1") =>
        /\ derived["D1"].output_gen = current_generation(derived["D1"].base)
        /\ ~ Derived_input_changed(derived["D1"])

\* C4: derive runs the function once on the source's value and records the
\* source's generation; until the source is mutated input_changed() is false
\* and get() returns F(initial value) without running the function again
C4_FreshAfterConstruction ==
    (Live("D1") /\ SinceDerive("D1")[1] = 0) =>
        /\ hist["D1"].calls = 1
        /\ Signal_get(derived["D1"].output) = Apply("F", Signal_get(root["S"]))
        /\ derived["D1"].output_gen = Signal_generation(root["S"])
        /\ ~ Derived_input_changed(derived["D1"])
        /\ JustGot("D1") => (last.ret = Apply("F", Signal_get(root["S"])) /\ last.invoked = 0)

\* a get() on a view derived from a signal that had been mutated before, and not since
C4_Witness ==
    /\ JustGot("D1")
    /\ SinceDerive("D1")[1] = 0
    /\ nmut["S"] > 0
    /\ last.ret = Apply("F", Signal_get(root["S"]))

\* C5: once S was mutated after D1 was derived and D1.get() was called after
\* the last mutation, D2.get() returns G(F(current value of S))
C5_PropagationAfterRead ==
    (JustGot("D2") /\ SinceDerive("D1")[1] > 0 /\ ~ hist["D1"].dirty)
        => last.ret = Apply("G", Apply("F", Signal_get(root["S"])))

\* C6: a D2.get() made while S has been mutated since the last D1.get() returns
\* G(D1's output as it stands) and leaves D1 as it was, without running F
C6_TransitiveLaziness ==
    [][(last'.op = "Derived_get" /\ last'.target = "D2" /\ hist["D1"].dirty)
        => /\ last'.ret = Apply("G", Signal_get(derived["D1"].output))
           /\ derived'["D1"] = derived["D1"]
           /\ hist'["D1"].calls = hist["D1"].calls]_vars

\* C7: a get() on DP = (&S, &B).derive(H) returns H(current S, current B), as
\* long as each signal has received fewer than 2^GenBits mutating calls since derive
C7_CompositeInvalidation ==
    (JustGot("DP") /\ SinceDerive("DP")[1] < GenModulus /\ SinceDerive("DP")[2] < GenModulus)
        => last.ret = Apply("H", <<Signal_get(root["S"]), Signal_get(root["B"])>>)

\* a recomputing get() after only S was mutated
C7_Witness ==
    /\ JustGot("DP")
    /\ last.invoked = 1
    /\ SinceDerive("DP")[1] \in 1 .. (GenModulus - 1)
    /\ SinceDerive("DP")[2] = 0
    /\ last.ret = Apply("H", <<Signal_get(root["S"]), Signal_get(root["B"])>>)
    /\ last.ret # Apply("H", <<0, Signal_get(root["B"])>>)

\* the generation of S wrapped past zero after the function of v last ran
WrappedSinceCompute(v) ==
    (1 + hist[v].computedAt[1]) \div GenModulus < (1 + nmut["S"]) \div GenModulus

\* C8: when the counter of S has wrapped and S received between 1 and
\* 2^GenBits - 1 mutating calls since D1's function last ran, input_changed()
\* is true and get() returns F(current value of S)
C8_WraparoundKeepsStale ==
    (Live("D1") /\ WrappedSinceCompute("D1") /\ SinceCompute("D1")[1] \in 1 .. (GenModulus - 1))
        => /\ Derived_input_changed(derived["D1"])
           /\ JustGot("D1") => last.ret = Apply("F", Signal_get(root["S"]))

\* C9: a new signal has generation 1, every mutating call adds one modulo
\* 2^GenBits, so after n calls the generation is (1 + n) mod 2^GenBits; set
\* leaves the signal holding the value given
C9_GenerationCounting ==
    /\ Signal_generation(root["S"]) = (1 + nmut["S"]) % GenModulus
    /\ Signal_generation(root["S"]) \in 0 .. (GenModulus - 1)
    /\ (last.op = "set" /\ last.target = "S") => <<Signal_get(root["S"])>> = last.arg
    /\ (last.op = "deref_mut" /\ last.target = "S") => <<Signal_get(root["S"])>> = last.arg

\* a get_mut whose borrow was not written through took the counter from its maximum to 0
C9_Witness ==
    /\ last.op = "get_mut"
    /\ last.arg = NoArg
    /\ nmut["S"] = GenModulus - 1
    /\ Signal_generation(root["S"]) = 0

\* C10: get, a read through Deref and generation leave the signal's value and
\* generation as they were, and so leave input_changed() of a view over it as it was
C10_ReadsAreSilent ==
    [][(last'.op \in {"get", "deref", "generation"})
        => /\ root' = root
           /\ derived' = derived
           /\ Live("D1") => (Derived_input_changed(derived["D1"])'
                                = Derived_input_changed(derived["D1"]))]_vars

\* a read of S while a fresh view over the mutated S exists
C10_Witness ==
    /\ last.op = "get"
    /\ last.target = "S"
    /\ Live("D1")
    /\ nmut["S"] > 0
    /\ ~ Derived_input_changed(derived["D1"])
    /\ last.ret = Signal_get(root["S"])

\* C11: a get() on D1 that recomputes changes the generation of D1's output
\* cell, after which D2 (when derived) reports input_changed(); a get() that does
\* not recompute leaves that generation as it was
C11_RecomputeBumpsOutputGeneration ==
    [][(last'.op = "Derived_get" /\ last'.target = "D1") =>
        IF last'.invoked = 1
        THEN /\ Signal_generation(Derived_output_signal(derived'["D1"]))
                    # Signal_generation(Derived_output_signal(derived["D1"]))
             /\ (Live("D2") /\ ~ Derived_input_changed(derived["D2"]))
                    => Derived_input_changed(derived["D2"])'
        ELSE Signal_generation(Derived_output_signal(derived'["D1"]))
                    = Signal_generation(Derived_output_signal(derived["D1"]))]_vars

\* C12: for DP over (S, B), compare_generation is true only when both members'
\* generations equal their baseline components, so input_changed() is true
\* exactly when some member's generation differs from its component: false when
\* neither member was mutated since the baseline was recorded, true when either
\* or both were (short of a full cycle of that member's counter)
C12_CompositeStalenessMemberwise ==
    Live("DP") =>
        LET d == derived["DP"]
            differs == \/ Signal_generation(root["S"]) # d.output_gen[1]
                       \/ Signal_generation(root["B"]) # d.output_gen[2]
        IN /\ compare_generation(d.base, d.output_gen) <=> ~ differs
           /\ Derived_input_changed(d) <=> differs
           /\ (SinceDerive("DP")[1] = 0 /\ SinceDerive("DP")[2] = 0) => ~ Derived_input_changed(d)
           /\ (/\ SinceDerive("DP")[1] < GenModulus
               /\ SinceDerive("DP")[2] < GenModulus
               /\ SinceDerive("DP")[1] + SinceDerive("DP")[2] > 0) => Derived_input_changed(d)
           /\ (last.op = "input_changed" /\ last.target = "DP") => (last.ret <=> differs)

\* input_changed() answered true after only B was mutated
C12_Witness ==
    /\ last.op = "input_changed"
    /\ last.target = "DP"
    /\ last.ret = TRUE
    /\ SinceDerive("DP")[1] = 0
    /\ SinceDerive("DP")[2] \in 1 .. (GenModulus - 1)

\* the mutating calls of Signal, as recorded in last.op
MutatingOps == {"set", "get_mut", "flag_updated", "deref_mut"}

\* C13: the function of a view runs only in derive (once) and in Derived::get;
\* set, get_mut, flag_updated and a write through DerefMut run no function and
\* leave every view (cached output, baseline, output generation) as it was
C13_RecomputeIsPullOnly ==
    [][/\ (last'.op \in MutatingOps) =>
            /\ derived' = derived
            /\ last'.invoked = 0
            /\ \A v \in Views : hist'[v].calls = hist[v].calls
       /\ (\E v \in Views : hist'[v].calls # hist[v].calls) =>
            /\ last'.op \in {"derive", "Derived_get"}
            /\ hist'[last'.target].calls = hist[last'.target].calls + 1
       /\ (last'.op = "derive") => hist'[last'.target].calls = 1]_vars

\* after a set the cache of D1 still holds the value computed from the old source
C13_Witness ==
    /\ last.op = "set"
    /\ last.target = "S"
    /\ Live("D1")
    /\ Signal_get(derived["D1"].output) # Apply("F", Signal_get(root["S"]))
    /\ Derived_input_changed(derived["D1"])

\* C14: input_changed() answers true exactly when the source's current marker
\* differs from the stored baseline, runs no function and leaves signals and
\* views as they were, so the next get() does and returns what it would have
C14_InputChangedIsPure ==
    [][\A v \in Views : (last'.op = "input_changed" /\ last'.target = v) =>
        LET d == derived[v]
        IN /\ last'.ret <=> (current_generation(d.base) # d.output_gen)
           /\ last'.invoked = 0
           /\ root' = root
           /\ derived' = derived
           /\ hist' = hist
           /\ Derived_get(derived[v])' = Derived_get(d)
           /\ Derived_get_result(derived[v])' = Derived_get_result(d)]_vars

\* input_changed() answered true and the stale cache is still in place
C14_Witness ==
    /\ last.op = "input_changed"
    /\ last.target = "D1"
    /\ last.ret = TRUE
    /\ Signal_get(derived["D1"].output) # Apply("F", Signal_get(root["S"]))
    /\ Derived_get_result(derived["D1"]) = Apply("F", Signal_get(root["S"]))

\* exactly 2^GenBits mutating calls were made on S since D1 was derived, and
\* D1's function has not run since derive (no get() fell between them)
FullCycleSinceDerive ==
    /\ Live("D1")
    /\ SinceDerive("D1")[1] = GenModulus
    /\ hist["D1"].calls = 1

\* C15: after a full cycle of the counter with no get() in between, the
\* generation of S equals D1's baseline again, input_changed() answers false and
\* get() returns the output computed before the mutations without running F
C15_FullCycleIsSilent ==
    [][FullCycleSinceDerive =>
        /\ Signal_generation(root["S"]) = derived["D1"].output_gen
        /\ ~ Derived_input_changed(derived["D1"])
        /\ (last'.op = "input_changed" /\ last'.target = "D1") => last'.ret = FALSE
        /\ (last'.op = "Derived_get" /\ last'.target = "D1") =>
                /\ last'.invoked = 0
                /\ last'.ret = Signal_get(derived["D1"].output)
                /\ derived' = derived
                /\ hist'["D1"].calls = 1]_vars

\* a get() after a full cycle returned a value that is not F(current value of S)
C15_Witness ==
    /\ FullCycleSinceDerive
    /\ JustGot("D1")
    /\ last.invoked = 0
    /\ last.ret # Apply("F", Signal_get(root["S"]))

\* the other one of the two sibling views over S
Sibling(v) == IF v = "D1" THEN "D3" ELSE "D1"

\* get() or input_changed() on one sibling leaves the other sibling's struct,
\* and so its staleness, baseline and cached output, as it was
SiblingFrame ==
    \A v \in {"D1", "D3"} :
        (last'.op \in {"Derived_get", "input_changed"} /\ last'.target = v) =>
            /\ derived'[Sibling(v)] = derived[Sibling(v)]
            /\ Live(Sibling(v)) =>
                (Derived_input_changed(derived[Sibling(v)])'
                    = Derived_input_changed(derived[Sibling(v)]))

\* C16 as stated: siblings do not disturb each other; after a mutation of S
\* both views are stale; a D3.get() after D1 was read returns K(current S)
C16_SiblingsIndependent_Original ==
    [][/\ SiblingFrame
       /\ (last'.op \in MutatingOps /\ Live("D1") /\ Live("D3")) =>
            /\ Derived_input_changed(derived["D1"])'
            /\ Derived_input_changed(derived["D3"])'
       /\ (last'.op = "Derived_get" /\ last'.target = "D3" /\ Live("D1")) =>
                last'.ret = Apply("K", Signal_get(root["S"]))]_vars

\* C16 amended: the same, where staleness after a mutation and the value read
\* are claimed only while S has received fewer than 2^GenBits mutating calls
\* since the view concerned was derived
C16_SiblingsIndependent ==
    [][/\ SiblingFrame
       /\ \A v \in {"D1", "D3"} :
            (last'.op \in MutatingOps /\ Live(v) /\ SinceDerive(v)[1] + 1 < GenModulus) =>
                Derived_input_changed(derived[v])'
       /\ (/\ last'.op = "Derived_get" /\ last'.target = "D3" /\ Live("D1")
           /\ SinceDerive("D3")[1] < GenModulus) =>
                last'.ret = Apply("K", Signal_get(root["S"]))]_vars

\* D3 was read after a mutation that D1 had already read, and recomputed
C16_Witness ==
    /\ JustGot("D3")
    /\ last.invoked = 1
    /\ Live("D1")
    /\ ~ hist["D1"].dirty
    /\ hist["D1"].calls > 1
    /\ SinceDerive("D3")[1] \in 1 .. (GenModulus - 1)
    /\ last.ret = Apply("K", Signal_get(root["S"]))
    /\ Signal_get(derived["D1"].output) = Apply("F", Signal_get(root["S"]))

\* C17: get() and input_changed() on a view, whatever its source (a signal,
\* another view's output, a pair), leave every root signal and every other
\* view as they were; of the reading view only the cached value may change
C17_ViewNeverWritesSource ==
    [][\A v \in Views :
        (last'.op \in {"Derived_get", "input_changed"} /\ last'.target = v) =>
            /\ root' = root
            /\ \A u \in Views \ {v} : derived'[u] = derived[u]
            /\ derived'[v].base = derived[v].base
            /\ derived'[v].output_gen = derived[v].output_gen
            /\ Signal_generation(derived'[v].output) = Signal_generation(derived[v].output)
            /\ (last'.op = "input_changed") => derived'[v] = derived[v]]_vars

\* a recomputing get() on the pair view after both S and B were mutated
C17_Witness ==
    /\ JustGot("DP")
    /\ last.invoked = 1
    /\ SinceDerive("DP")[1] > 0
    /\ SinceDerive("DP")[2] > 0
    /\ Signal_generation(root["S"]) = (1 + nmut["S"]) % GenModulus
    /\ Signal_generation(root["B"]) = (1 + nmut["B"]) % GenModulus
====
